---------------------------- MODULE Spec2Model ----------------------------
(***************************************************************************)
(* Model of the CLibEdit shim (Sources/CLibEdit/libedit_shim.c): the le_*  *)
(* functions, the process-wide completion slot s_generator, and the parts  *)
(* of libedit's readline-compatible library the shim forwards to (history  *)
(* list, history file, readline session, completion driver, terminal).     *)
(*                                                                         *)
(* Strings are sequences of characters.  A C pointer to a string is a     *)
(* record [isnull, s]; a function pointer is a name or NULLFN.             *)
(***************************************************************************)
EXTENDS Integers, Sequences, FiniteSets, TLC

VARIABLES
    history,      \* libedit's history list, oldest entry first
    fs,           \* the file at HistPath: [kind, data]
    s_generator,  \* static le_generator_t s_generator
    rl_attempted_completion_function, \* libedit's hook variable
    have_rl_ding, \* build configuration: rl_ding is defined as a macro
    rl,           \* the readline session in progress (or idle)
    term,         \* what reached the terminal: bells rung, stdio state
    call,         \* the last shim call that returned: fn, arg, ret, out, lib
    written       \* observer: the history list as last saved to the file

vars == <<history, fs, s_generator, rl_attempted_completion_function,
          have_rl_ding, rl, term, call, written>>

-----------------------------------------------------------------------------
(* Bounds and input sets *)

MaxHist == 2          \* history entries kept in the history-centred runs
MaxHistEdit == 1      \* history entries kept in the full runs
MaxBuf == 2           \* characters typed into one readline buffer
MaxBells == 1         \* bells counted on the terminal

NL == "\n"
BS == "\\"

\* C strings handed to the shim
NULLP == [isnull |-> TRUE, s |-> <<>>]
Str(s) == [isnull |-> FALSE, s |-> s]

\* lines the caller may append: plain, with a backslash, with a newline
LineSet == {<<"a">>, <<"b", BS>>, <<NL, "a">>}
LineArgs == {NULLP, Str(<<>>)} \cup {Str(l) : l \in LineSet}
LineArgsEdit == {NULLP, Str(<<"a">>)}

HistPath == "hist"


-----------------------------------------------------------------------------
(* libedit: the history list and the history file (history.c, readline.c). *)
(* The shim only forwards to these; they are modelled by the behaviour    *)
(* the library documents for them.                                         *)

HDR == "_HiStOrY_V2_"

\* strvis(3) with VIS_WHITE, as history_save uses it: a newline becomes the
\* escape \012, a backslash is doubled, anything else is copied
Vis(c) == IF c = NL THEN <<BS, "012">> ELSE IF c = BS THEN <<BS, BS>> ELSE <<c>>

RECURSIVE StrVis(_)
StrVis(s) == IF s = <<>> THEN <<>> ELSE Vis(Head(s)) \o StrVis(Tail(s))

\* strunvis(3): [ok, s]; a dangling or unknown escape is an error
RECURSIVE StrUnvis(_)
StrUnvis(d) ==
    IF d = <<>> THEN [ok |-> TRUE, s |-> <<>>]
    ELSE IF Head(d) # BS
         THEN LET r == StrUnvis(Tail(d))
              IN [ok |-> r.ok, s |-> <<Head(d)>> \o r.s]
    ELSE IF Len(d) < 2 THEN [ok |-> FALSE, s |-> <<>>]
    ELSE IF d[2] \in {BS, "012"}
         THEN LET r == StrUnvis(Tail(Tail(d)))
              IN [ok |-> r.ok, s |-> <<IF d[2] = BS THEN BS ELSE NL>> \o r.s]
    ELSE [ok |-> FALSE, s |-> <<>>]

\* history_save: the cookie line, then one encoded entry per line, oldest first
RECURSIVE SaveEntries(_)
SaveEntries(h) ==
    IF h = <<>> THEN <<>> ELSE StrVis(Head(h)) \o <<NL>> \o SaveEntries(Tail(h))

history_save(h) == <<HDR, NL>> \o SaveEntries(h)

\* the newline-terminated records of a file, in file order
RECURSIVE SplitLines(_, _)
SplitLines(d, cur) ==
    IF d = <<>> THEN (IF cur = <<>> THEN <<>> ELSE <<cur>>)
    ELSE IF Head(d) = NL THEN <<cur>> \o SplitLines(Tail(d), <<>>)
    ELSE SplitLines(Tail(d), Append(cur, Head(d)))

RECURSIVE LoadEntries(_)
LoadEntries(recs) ==
    IF recs = <<>> THEN [ok |-> TRUE, h |-> <<>>]
    ELSE LET e == StrUnvis(Head(recs))
             r == LoadEntries(Tail(recs))
         IN [ok |-> e.ok /\ r.ok, h |-> <<e.s>> \o r.h]

\* history_load: [ok, h]; fails on an empty file, a wrong cookie, a bad escape
history_load(d) ==
    LET recs == SplitLines(d, <<>>)
    IN IF recs = <<>> \/ Head(recs) # <<HDR>>
       THEN [ok |-> FALSE, h |-> <<>>]
       ELSE LoadEntries(Tail(recs))

\* the file at HistPath
Missing == [kind |-> "missing", data |-> <<>>]
Denied == [kind |-> "denied", data |-> <<>>]
File(d) == [kind |-> "data", data |-> d]
Garbage == File(<<"a", NL>>)

\* the value the history functions report on failure (header: "-1 on error")
HistoryError == -1

\* add_history(line): the line is placed at the end of the history list
add_history(h, s) == Append(h, s)

\* clear_history(): the list is emptied
clear_history == <<>>

\* read_history(path): [ret, h]; the file's entries are appended to the list
read_history(f, h) ==
    IF f.kind # "data" THEN [ret |-> HistoryError, h |-> h]
    ELSE LET r == history_load(f.data)
         IN IF r.ok THEN [ret |-> 0, h |-> h \o r.h]
            ELSE [ret |-> HistoryError, h |-> h]

\* write_history(path): [ret, f]; the file is truncated and rewritten
write_history(f, h) ==
    IF f.kind = "denied" THEN [ret |-> HistoryError, f |-> f]
    ELSE [ret |-> 0, f |-> File(history_save(h))]

-----------------------------------------------------------------------------
(* The shim: history functions *)

NULLFN == "NULL"
\* The record of the last shim call that returned: the function, its string
\* and function-pointer arguments, its int result, its pointer result, the
\* library calls it made in order (each with its argument and result), and a
\* bit that flips with every return, so that two equal calls in a row differ.
NoCall == [fn |-> "none", arg |-> NULLP, gen |-> NULLFN, ret |-> 0,
           out |-> NULLP, lib |-> <<>>, n |-> 0]
Called(fn, arg, gen, ret, out, lib) ==
    [fn |-> fn, arg |-> arg, gen |-> gen, ret |-> ret, out |-> out, lib |-> lib,
     n |-> 1 - call.n]
LibCall(f, a, r) == [f |-> f, a |-> a, r |-> r]

Idle == rl.pc = "idle"

\* a variant that tests the pointer only: if (line) add_history(line);
le_add_history_unguarded(line) ==
    /\ Idle
    /\ IF ~line.isnull
       THEN /\ history' = add_history(history, line.s)
            /\ call' = Called("le_add_history", line, NULLFN, 0, NULLP,
                              <<LibCall("add_history", line, 0)>>)
       ELSE /\ history' = history
            /\ call' = Called("le_add_history", line, NULLFN, 0, NULLP, <<>>)
    /\ UNCHANGED <<fs, s_generator, rl_attempted_completion_function,
                   have_rl_ding, rl, term, written>>

\* a variant that skips a line equal to the newest entry
le_add_history_dedup(line) ==
    /\ Idle
    /\ IF /\ ~line.isnull /\ line.s # <<>>
          /\ (history = <<>> \/ history[Len(history)] # line.s)
       THEN /\ history' = add_history(history, line.s)
            /\ call' = Called("le_add_history", line, NULLFN, 0, NULLP,
                              <<LibCall("add_history", line, 0)>>)
       ELSE /\ history' = history
            /\ call' = Called("le_add_history", line, NULLFN, 0, NULLP, <<>>)
    /\ UNCHANGED <<fs, s_generator, rl_attempted_completion_function,
                   have_rl_ding, rl, term, written>>

\* void le_add_history(const char *line) { if (line && *line) add_history(line); }
le_add_history(line) ==
    /\ Idle
    /\ IF ~line.isnull /\ line.s # <<>>
       THEN /\ history' = add_history(history, line.s)
            /\ call' = Called("le_add_history", line, NULLFN, 0, NULLP,
                              <<LibCall("add_history", line, 0)>>)
       ELSE /\ history' = history
            /\ call' = Called("le_add_history", line, NULLFN, 0, NULLP, <<>>)
    /\ UNCHANGED <<fs, s_generator, rl_attempted_completion_function,
                   have_rl_ding, rl, term, written>>

\* a variant that calls read_history and returns 0 whatever it reports
le_read_history_swallow ==
    /\ Idle
    /\ LET r == read_history(fs, history)
       IN /\ history' = r.h
          /\ call' = Called("le_read_history", Str(<<HistPath>>), NULLFN, 0,
                            NULLP, <<LibCall("read_history", Str(<<HistPath>>), r.ret)>>)
    /\ UNCHANGED <<fs, s_generator, rl_attempted_completion_function,
                   have_rl_ding, rl, term, written>>

\* a variant that takes a missing file for an empty history
le_read_history_lenient ==
    /\ Idle
    /\ LET r == read_history(fs, history)
           ret == IF fs.kind = "missing" THEN 0 ELSE r.ret
       IN /\ history' = r.h
          /\ call' = Called("le_read_history", Str(<<HistPath>>), NULLFN, ret,
                            NULLP, <<LibCall("read_history", Str(<<HistPath>>), r.ret)>>)
    /\ UNCHANGED <<fs, s_generator, rl_attempted_completion_function,
                   have_rl_ding, rl, term, written>>

\* int le_read_history(const char *path) { return read_history(path); }
le_read_history ==
    /\ Idle
    /\ LET r == read_history(fs, history)
       IN /\ history' = r.h
          /\ call' = Called("le_read_history", Str(<<HistPath>>), NULLFN, r.ret,
                            NULLP, <<LibCall("read_history", Str(<<HistPath>>), r.ret)>>)
    /\ UNCHANGED <<fs, s_generator, rl_attempted_completion_function,
                   have_rl_ding, rl, term, written>>

\* int le_write_history(const char *path) { return write_history(path); }
le_write_history ==
    /\ Idle
    /\ LET r == write_history(fs, history)
       IN /\ fs' = r.f
          /\ written' = IF r.ret = 0 THEN history ELSE written
          /\ call' = Called("le_write_history", Str(<<HistPath>>), NULLFN, r.ret,
                            NULLP, <<LibCall("write_history", Str(<<HistPath>>), r.ret)>>)
    /\ UNCHANGED <<history, s_generator, rl_attempted_completion_function,
                   have_rl_ding, rl, term>>

\* a variant that does not call clear_history
le_clear_history_noop ==
    /\ Idle
    /\ history' = history
    /\ call' = Called("le_clear_history", NULLP, NULLFN, 0, NULLP, <<>>)
    /\ UNCHANGED <<fs, s_generator, rl_attempted_completion_function,
                   have_rl_ding, rl, term, written>>

\* void le_clear_history(void) { clear_history(); }
le_clear_history ==
    /\ Idle
    /\ history' = clear_history
    /\ call' = Called("le_clear_history", NULLP, NULLFN, 0, NULLP,
                      <<LibCall("clear_history", NULLP, 0)>>)
    /\ UNCHANGED <<fs, s_generator, rl_attempted_completion_function,
                   have_rl_ding, rl, term, written>>


-----------------------------------------------------------------------------
(* Caller-supplied generators (le_generator_t): each returns its next      *)
(* candidate for the call index it is given, or NULL past the last one.    *)

Generators == {"gNone", "gOne", "gTwo"}

Candidates(g) ==
    CASE g = "gNone" -> <<>>
      [] g = "gOne" -> << <<"a", "b">> >>
      [] g = "gTwo" -> << <<"a", "b">>, <<"a", "c">> >>

\* char *g(const char *text, int state): malloc'd match or NULL
Gen(g, text, state) ==
    IF state < Len(Candidates(g)) THEN Str(Candidates(g)[state + 1]) ELSE NULLP

-----------------------------------------------------------------------------
(* libedit: the terminal, readline() and the completion driver             *)

BEL == "BEL"   \* the byte 0x07
EOF == -1

IdleRl == [pc |-> "idle", buf |-> <<>>, text |-> <<>>, gen0 |-> NULLFN,
           rereg |-> FALSE, calls |-> <<>>]

\* the longest common prefix of two strings, and of a list of strings
RECURSIVE Lcp2(_, _)
Lcp2(a, b) ==
    IF a = <<>> \/ b = <<>> \/ Head(a) # Head(b) THEN <<>>
    ELSE <<Head(a)>> \o Lcp2(Tail(a), Tail(b))

RECURSIVE Lcp(_)
Lcp(ms) == IF Len(ms) = 1 THEN ms[1] ELSE Lcp2(ms[1], Lcp(Tail(ms)))

\* the matches the generator calls of this cycle returned, as strings
Matches(calls) ==
    LET got == SelectSeq(calls, LAMBDA c : ~c.ret.isnull)
    IN [i \in 1..Len(got) |-> got[i].ret.s]

\* what the library inserts for a match list: the part of the common prefix
\* of the matches that lies beyond the text being completed
Inserted(text, ms) ==
    LET p == Lcp(ms)
    IN IF Len(p) > Len(text) THEN SubSeq(p, Len(text) + 1, Len(p)) ELSE <<>>

\* the terminal bell as the library rings it
Beep(tm) == [tm EXCEPT !.bells = @ + 1]

\* what the library's own (filename) completer finds for the text: nothing,
\* or a file name that extends it by these characters
DefaultFound == {NULLP, Str(<<"f">>)}

Keys == {"a"}
Prompt == Str(<<">">>)

-----------------------------------------------------------------------------
(* The shim: completion *)

\* a variant that passes state 0 on every call
le_generator_trampoline_state0(text, state) ==
    IF s_generator = NULLFN THEN [ret |-> NULLP, calls |-> <<>>]
    ELSE LET r == Gen(s_generator, text, 0)
         IN [ret |-> r,
             calls |-> <<[gen |-> s_generator, text |-> text, state |-> 0,
                          ret |-> r]>>]

\* a variant that calls the generator that was registered when the cycle began
le_generator_trampoline_cached(text, state) ==
    IF rl.gen0 = NULLFN THEN [ret |-> NULLP, calls |-> <<>>]
    ELSE LET r == Gen(rl.gen0, text, state)
         IN [ret |-> r,
             calls |-> <<[gen |-> rl.gen0, text |-> text, state |-> state,
                          ret |-> r]>>]

\* static char *le_generator_trampoline(const char *text, int state):
\* [ret, calls], calls being the generator call it made, if any
le_generator_trampoline(text, state) ==
    IF s_generator = NULLFN THEN [ret |-> NULLP, calls |-> <<>>]
    ELSE LET r == Gen(s_generator, text, state)
         IN [ret |-> r,
             calls |-> <<[gen |-> s_generator, text |-> text, state |-> state,
                          ret |-> r]>>]

\* static char **attempted_completion(const char *text, int start, int end):
\* TRUE when it hands the text to rl_completion_matches, FALSE when it
\* returns NULL at once
attempted_completion(text) == s_generator # NULLFN

\* void le_set_completion(le_generator_t generator); the caller is the
\* application between readline calls, or a generator that is running
le_set_completion(g) ==
    /\ \/ Idle
       \/ rl.pc = "matching" /\ rl.calls # <<>>
    /\ s_generator' = g
    /\ rl_attempted_completion_function' = "attempted_completion"
    /\ rl' = IF Idle THEN rl ELSE [rl EXCEPT !.rereg = TRUE]
    /\ call' = Called("le_set_completion", NULLP, g, 0, NULLP, <<>>)
    /\ UNCHANGED <<history, fs, have_rl_ding, term, written>>

-----------------------------------------------------------------------------
(* The shim: readline, and the library's session it blocks in *)

\* char *le_readline(const char *prompt) { return readline(prompt); }
\* the call enters the library, which reads keys until the line ends
le_readline ==
    /\ Idle
    /\ rl' = [IdleRl EXCEPT !.pc = "reading"]
    /\ UNCHANGED <<history, fs, s_generator, rl_attempted_completion_function,
                   have_rl_ding, term, call, written>>

\* a printable key is inserted into the line buffer
rl_insert(c) ==
    /\ rl.pc = "reading"
    /\ Len(rl.buf) < MaxBuf
    /\ rl' = [rl EXCEPT !.buf = Append(@, c)]
    /\ UNCHANGED <<history, fs, s_generator, rl_attempted_completion_function,
                   have_rl_ding, term, call, written>>

\* a variant that appends the line it returns to the history
rl_newline_appends ==
    /\ rl.pc = "reading"
    /\ rl' = IdleRl
    /\ history' = IF rl.buf # <<>> THEN add_history(history, rl.buf) ELSE history
    /\ call' = Called("le_readline", Prompt, NULLFN, 0, Str(rl.buf),
                      <<LibCall("readline", Prompt, 0)>>)
    /\ UNCHANGED <<fs, s_generator, rl_attempted_completion_function,
                   have_rl_ding, term, written>>

\* Enter: readline returns the buffer as a malloc'd string
rl_newline ==
    /\ rl.pc = "reading"
    /\ rl' = IdleRl
    /\ call' = Called("le_readline", Prompt, NULLFN, 0, Str(rl.buf),
                      <<LibCall("readline", Prompt, 0)>>)
    /\ UNCHANGED <<history, fs, s_generator, rl_attempted_completion_function,
                   have_rl_ding, term, written>>

\* end of input on an empty buffer: readline returns NULL
rl_eof ==
    /\ rl.pc = "reading"
    /\ rl.buf = <<>>
    /\ rl' = IdleRl
    /\ call' = Called("le_readline", Prompt, NULLFN, 0, NULLP,
                      <<LibCall("readline", Prompt, 0)>>)
    /\ UNCHANGED <<history, fs, s_generator, rl_attempted_completion_function,
                   have_rl_ding, term, written>>

\* the interrupt key: the read is abandoned and the buffer discarded
rl_interrupt ==
    /\ rl.pc = "reading"
    /\ rl' = IdleRl
    /\ call' = Called("le_readline/SIGINT", Prompt, NULLFN, 0, NULLP,
                      <<LibCall("readline", Prompt, 0)>>)
    /\ UNCHANGED <<history, fs, s_generator, rl_attempted_completion_function,
                   have_rl_ding, term, written>>

\* Tab: the library starts a completion of the text before the cursor; it
\* calls rl_attempted_completion_function when one is installed
rl_complete ==
    /\ rl.pc = "reading"
    /\ Len(rl.buf) <= MaxBuf
    /\ term.bells + term.pending < MaxBells
    /\ rl' = [rl EXCEPT !.pc = IF rl_attempted_completion_function = NULLFN
                                THEN "default" ELSE "hook",
                        !.text = rl.buf, !.gen0 = s_generator,
                        !.rereg = FALSE, !.calls = <<>>]
    /\ UNCHANGED <<history, fs, s_generator, rl_attempted_completion_function,
                   have_rl_ding, term, call, written>>

\* the library calls the installed hook
call_attempted_completion ==
    /\ rl.pc = "hook"
    /\ rl' = [rl EXCEPT !.pc = IF attempted_completion(rl.text)
                                THEN "matching" ELSE "default"]
    /\ UNCHANGED <<history, fs, s_generator, rl_attempted_completion_function,
                   have_rl_ding, term, call, written>>

\* rl_completion_matches(text, le_generator_trampoline): one turn of its loop.
\* It calls the trampoline with state = the number of matches it has so far
\* (0, 1, 2, ...) and stops at the first NULL; with no match it returns NULL,
\* which the hook returns in turn; otherwise the library inserts the common
\* prefix of the matches.
rl_completion_matches ==
    /\ rl.pc = "matching"
    /\ LET r == le_generator_trampoline(rl.text, Len(Matches(rl.calls)))
           cs == rl.calls \o r.calls
       IN rl' = IF ~r.ret.isnull THEN [rl EXCEPT !.calls = cs]
                ELSE IF Matches(cs) = <<>>
                     THEN [rl EXCEPT !.calls = cs, !.pc = "default"]
                ELSE [rl EXCEPT !.calls = cs, !.pc = "reading",
                                !.buf = @ \o Inserted(rl.text, Matches(cs))]
    /\ UNCHANGED <<history, fs, s_generator, rl_attempted_completion_function,
                   have_rl_ding, term, call, written>>

\* no hook, or a hook that returned NULL with rl_attempted_completion_over
\* left at 0: the library runs its own completer; it inserts what that one
\* finds, or rings the bell when it finds nothing
rl_default_completion(found) ==
    /\ rl.pc = "default"
    /\ IF found.isnull
       THEN /\ rl' = [rl EXCEPT !.pc = "reading"]
            /\ term' = Beep(term)
       ELSE /\ rl' = [rl EXCEPT !.pc = "reading", !.buf = @ \o found.s]
            /\ term' = term
    /\ UNCHANGED <<history, fs, s_generator, rl_attempted_completion_function,
                   have_rl_ding, call, written>>

-----------------------------------------------------------------------------
(* The shim: bell and initialisation *)

\* a variant whose fallback reports a failed write or flush
le_ding_checked(putok, flushok, r) ==
    /\ Idle
    /\ term.bells + term.pending < MaxBells
    /\ IF have_rl_ding
       THEN /\ term' = IF r = 0 THEN Beep(term) ELSE term
            /\ call' = Called("le_ding", NULLP, NULLFN, r, NULLP,
                              <<LibCall("rl_ding", NULLP, r)>>)
       ELSE LET queued == term.pending + (IF putok THEN 1 ELSE 0)
            IN /\ term' = IF flushok
                          THEN [bells |-> term.bells + queued, pending |-> 0]
                          ELSE [bells |-> term.bells, pending |-> queued]
               /\ call' = Called("le_ding", NULLP, NULLFN,
                                 IF putok /\ flushok THEN 0 ELSE EOF, NULLP,
                                 <<LibCall("fputc", Str(<<BEL>>),
                                           IF putok THEN 0 ELSE EOF),
                                   LibCall("fflush", Str(<<"stdout">>),
                                           IF flushok THEN 0 ELSE EOF)>>)
    /\ UNCHANGED <<history, fs, s_generator, rl_attempted_completion_function,
                   have_rl_ding, rl, written>>

\* int le_ding(void): with rl_ding a macro, return rl_ding(); otherwise
\* fputc('\a', stdout); fflush(stdout); return 0;
\* putok, flushok: whether the write and the flush succeed; r: rl_ding's result
le_ding(putok, flushok, r) ==
    /\ Idle
    /\ term.bells + term.pending < MaxBells
    /\ IF have_rl_ding
       THEN /\ term' = IF r = 0 THEN Beep(term) ELSE term
            /\ call' = Called("le_ding", NULLP, NULLFN, r, NULLP,
                              <<LibCall("rl_ding", NULLP, r)>>)
       ELSE LET queued == term.pending + (IF putok THEN 1 ELSE 0)
            IN /\ term' = IF flushok
                          THEN [bells |-> term.bells + queued, pending |-> 0]
                          ELSE [bells |-> term.bells, pending |-> queued]
               /\ call' = Called("le_ding", NULLP, NULLFN, 0, NULLP,
                                 <<LibCall("fputc", Str(<<BEL>>),
                                           IF putok THEN 0 ELSE EOF),
                                   LibCall("fflush", Str(<<"stdout">>),
                                           IF flushok THEN 0 ELSE EOF)>>)
    /\ UNCHANGED <<history, fs, s_generator, rl_attempted_completion_function,
                   have_rl_ding, rl, written>>

\* void le_initialize(void) { rl_initialize(); }
\* the library sets up its editor and history; a build may start a fresh
\* history list when it is initialised again
le_initialize(fresh) ==
    /\ Idle
    /\ history' = IF fresh THEN <<>> ELSE history
    /\ call' = Called("le_initialize", NULLP, NULLFN, 0, NULLP,
                      <<LibCall("rl_initialize", NULLP, 0)>>)
    /\ UNCHANGED <<fs, s_generator, rl_attempted_completion_function,
                   have_rl_ding, rl, term, written>>

-----------------------------------------------------------------------------
(* Specifications *)

\* the state of a fresh process; the file at HistPath is what the
\* environment left there
InitWith(files) ==
    /\ history = <<>>
    /\ fs \in files
    /\ s_generator = NULLFN
    /\ rl_attempted_completion_function = NULLFN
    /\ have_rl_ding \in BOOLEAN
    /\ rl = IdleRl
    /\ term = [bells |-> 0, pending |-> 0]
    /\ call = NoCall
    /\ written = <<>>

InitHistory == InitWith({Missing, Denied, Garbage})

Init == InitWith({Missing})

\* the history functions, on the larger set of lines
NextHistory ==
    \/ \E line \in LineArgs : Len(history) < MaxHist /\ le_add_history(line)
    \/ Len(read_history(fs, history).h) <= MaxHist /\ le_read_history
    \/ le_write_history
    \/ le_clear_history
    \/ \E fresh \in BOOLEAN : le_initialize(fresh)

SpecHistory == InitHistory /\ [][NextHistory]_vars

\* every function of the shim, and the library's steps inside readline
Next ==
    \/ \E line \in LineArgsEdit :
          Len(history) < MaxHistEdit /\ le_add_history(line)
    \/ Len(read_history(fs, history).h) <= MaxHistEdit /\ le_read_history
    \/ le_write_history
    \/ le_clear_history
    \/ \E fresh \in BOOLEAN : le_initialize(fresh)
    \/ \E g \in Generators \cup {NULLFN} : le_set_completion(g)
    \/ le_readline
    \/ \E c \in Keys : rl_insert(c)
    \/ rl_newline
    \/ rl_eof
    \/ rl_interrupt
    \/ rl_complete
    \/ call_attempted_completion
    \/ rl_completion_matches
    \/ \E found \in DefaultFound : rl_default_completion(found)
    \/ \E putok, flushok \in BOOLEAN, r \in {0, EOF} : le_ding(putok, flushok, r)

Spec == Init /\ [][Next]_vars

-----------------------------------------------------------------------------
(* Properties *)

\* this step is the return of a call of the shim function fn
Returned(fn) == call'.n # call.n /\ call'.fn = fn

NonEmpty(p) == ~p.isnull /\ p.s # <<>>

NoNewline(h) == \A i \in 1..Len(h) : \A j \in 1..Len(h[i]) : h[i][j] # NL

\* C1: le_add_history with NULL or the empty string leaves the history list
\* as it was and makes no add_history call; with a non-empty line it calls
\* add_history exactly once, with that line.
C1_AddHistoryGuard ==
    [][Returned("le_add_history") =>
          IF NonEmpty(call'.arg)
          THEN call'.lib = <<LibCall("add_history", call'.arg, 0)>>
          ELSE history' = history /\ call'.lib = <<>>]_vars

\* a no-op call (NULL) was made on a history that holds entries
C1_Witness ==
    /\ call.fn = "le_add_history"
    /\ call.arg.isnull
    /\ call.lib = <<>>
    /\ history # <<>>

\* two le_add_history calls in a row with the same non-empty line
SameLineAgain ==
    /\ call.fn = "le_add_history"
    /\ Returned("le_add_history")
    /\ NonEmpty(call'.arg)
    /\ call'.arg = call.arg

\* C2 as claimed: the second of two le_add_history calls in a row with the
\* same non-empty line leaves the history length unchanged (dedup).
C2_Dedup == [][SameLineAgain => Len(history') = Len(history)]_vars

\* C2 amended: the second call appends the line again; the history is one
\* entry longer than after the first call.
C2_NoDedup ==
    [][SameLineAgain =>
          /\ history' = Append(history, call'.arg.s)
          /\ Len(history') = Len(history) + 1]_vars

\* the history ends with the same line twice, just appended
C2_Witness ==
    /\ call.fn = "le_add_history"
    /\ Len(history) >= 2
    /\ history[Len(history)] = history[Len(history) - 1]
    /\ call.arg = Str(history[Len(history)])

\* C4: le_read_history and le_write_history make one library call and
\* return its value: 0 exactly when the load or save took place, -1 when it
\* failed (no file, no permission, malformed content); the call returns.
C4_HistoryReturnCodes ==
    /\ call.fn = "le_read_history" =>
          /\ Len(call.lib) = 1 /\ call.lib[1].f = "read_history"
          /\ call.ret = call.lib[1].r
          /\ call.ret \in {0, HistoryError}
          /\ call.ret = 0 <=> (fs.kind = "data" /\ history_load(fs.data).ok)
    /\ call.fn = "le_write_history" =>
          /\ Len(call.lib) = 1 /\ call.lib[1].f = "write_history"
          /\ call.ret = call.lib[1].r
          /\ call.ret \in {0, HistoryError}
          /\ call.ret = 0 <=> fs = File(history_save(history))
          /\ call.ret = HistoryError <=> fs.kind = "denied"

\* a load of a malformed file returned the error to the caller
C4_Witness ==
    /\ call.fn = "le_read_history"
    /\ fs = Garbage
    /\ call.ret = HistoryError

\* C5 as claimed: le_read_history on a path with no file reports success.
C5_MissingIsEmpty ==
    (call.fn = "le_read_history" /\ fs.kind = "missing") => call.ret = 0

\* C5 amended: le_read_history on a path with no file returns the library's
\* error value, -1, and leaves the history list as it was.
C5_MissingIsError ==
    [][(Returned("le_read_history") /\ fs.kind = "missing") =>
          call'.ret = HistoryError /\ history' = history]_vars

\* a load of a missing file failed and the entries held were kept
C5_Witness ==
    /\ call.fn = "le_read_history"
    /\ fs.kind = "missing"
    /\ call.ret = HistoryError
    /\ history # <<>>

\* C6: a successful le_read_history that directly follows le_clear_history
\* yields exactly the list the last successful le_write_history saved (same
\* entries, same order, oldest first), for lines without a newline.
C6_RoundTrip ==
    [][(/\ call.fn = "le_clear_history"
        /\ Returned("le_read_history")
        /\ call'.ret = 0
        /\ NoNewline(written)) => history' = written]_vars

\* two different lines were saved, cleared and loaded back
C6_Witness ==
    /\ call.fn = "le_read_history"
    /\ call.ret = 0
    /\ Len(history) = 2
    /\ history[1] # history[2]
    /\ NoNewline(history)
    /\ history = written
    /\ fs = File(history_save(history))

\* C3: the generator calls of one completion cycle carry the cycle's text
\* and the states 0, 1, 2, ... in order; none follows a call that returned
\* NULL; with the registration untouched during the cycle they all go to the
\* generator registered when the cycle began.
C3_GeneratorCalls ==
    \A k \in 1..Len(rl.calls) :
        /\ rl.calls[k].state = k - 1
        /\ rl.calls[k].text = rl.text
        /\ k < Len(rl.calls) => ~rl.calls[k].ret.isnull
        /\ ~rl.rereg => rl.calls[k].gen = rl.gen0

\* a cycle of three calls, the last of which returned NULL, has ended
C3_Witness ==
    /\ rl.pc = "reading"
    /\ ~rl.rereg
    /\ Len(rl.calls) = 3
    /\ rl.calls[3].state = 2
    /\ rl.calls[3].ret.isnull

\* C7 as claimed: when le_readline returns a non-empty line that differs from
\* the newest history entry, the history is one entry longer.
C7_ReadlineAppends ==
    [][(/\ Returned("le_readline")
        /\ NonEmpty(call'.out)
        /\ (history = <<>> \/ history[Len(history)] # call'.out.s))
       => Len(history') = Len(history) + 1]_vars

\* C7 amended: from the moment le_readline is entered until it returns a
\* line, returns NULL at end of input or is interrupted, the history list
\* does not change; le_readline never appends.
C7_ReadlineKeepsHistory ==
    [][(\/ rl.pc # "idle"
        \/ Returned("le_readline")
        \/ Returned("le_readline/SIGINT")) => history' = history]_vars

\* a non-empty line was returned that the history does not hold
C7_Witness ==
    /\ call.fn = "le_readline"
    /\ call.out = Str(<<"a", "a">>)
    /\ history = << <<"a">> >>

\* C8 as claimed: a completion whose generator returned NULL on its first
\* call (state 0) ends with the bell rung and the line buffer unchanged.
C8_NoCandidatesBell ==
    [][(/\ rl.pc = "default"
        /\ Len(rl.calls) = 1
        /\ rl.calls[1].state = 0
        /\ rl.calls[1].ret.isnull
        /\ rl'.pc = "reading")
       => rl'.buf = rl.buf /\ term'.bells = term.bells + 1]_vars

\* C9: without the rl_ding macro, le_ding calls fputc('\a', stdout) once,
\* then fflush(stdout) once, and returns 0 whatever the two report.
C9_DingFallback ==
    (call.fn = "le_ding" /\ ~have_rl_ding) =>
        /\ call.ret = 0
        /\ Len(call.lib) = 2
        /\ call.lib[1].f = "fputc" /\ call.lib[1].a = Str(<<BEL>>)
        /\ call.lib[2].f = "fflush"
        /\ call.lib[1].r \in {0, EOF} /\ call.lib[2].r \in {0, EOF}

\* the write and the flush both failed and le_ding returned 0
C9_Witness ==
    /\ call.fn = "le_ding"
    /\ ~have_rl_ding
    /\ call.lib[1].r = EOF
    /\ call.lib[2].r = EOF
    /\ call.ret = 0

\* C10: each generator call goes to the generator registered at that
\* moment; with none registered the hook returns no match list and the
\* trampoline returns NULL, calling nothing; only le_set_completion changes
\* the registration, and it sets it to its argument.
C10_SingleSlot ==
    [][/\ (rl.pc = "matching" /\ rl'.calls # rl.calls) =>
             /\ s_generator # NULLFN
             /\ Len(rl'.calls) = Len(rl.calls) + 1
             /\ SubSeq(rl'.calls, 1, Len(rl.calls)) = rl.calls
             /\ rl'.calls[Len(rl'.calls)].gen = s_generator
       /\ s_generator = NULLFN =>
             /\ rl'.calls \in {rl.calls, <<>>}
             /\ rl.pc = "hook" => rl'.pc = "default"
             /\ (rl.pc = "matching" /\ ~Returned("le_set_completion")) =>
                    rl'.pc \in {"default", "reading"}
       /\ s_generator' # s_generator => Returned("le_set_completion")
       /\ Returned("le_set_completion") => s_generator' = call'.gen]_vars

\* a generator registered during a cycle received the cycle's next call
C10_Witness ==
    /\ rl.rereg
    /\ Len(rl.calls) >= 2
    /\ rl.calls[1].gen = rl.gen0
    /\ rl.calls[2].gen # rl.gen0
    /\ rl.calls[2].gen = s_generator

=============================================================================
